---- MODULE Spec2Model ----
(***************************************************************************)
(* A model of md-wrap (cmd/md-wrap/main.go): the streaming markdown        *)
(* reflow engine.  Strings are sequences of bytes; a byte is a one-        *)
(* character token.  Besides ASCII the alphabet holds one multi-byte       *)
(* white-space rune, U+3000, encoded as the three bytes E3 80 80, so that  *)
(* rune counts and byte counts differ as they do in the program.           *)
(***************************************************************************)
EXTENDS Integers, Sequences, FiniteSets, TLC

(* ---------------------------------------------------------------------- *)
(* Bounds of the model                                                     *)
(* ---------------------------------------------------------------------- *)
\* the width handed to newFmtState; main passes 80, the model a small width
charsPerLine == 6

\* the most words in a generated paragraph line
MaxWords == 2

\* the deepest quote nesting of a generated line
MaxDepth == 2

\* the widest indentation of a generated line
MaxIndent == 3

\* the most lines of a document that is wrapped twice
MaxDocLen == 2

(* ---------------------------------------------------------------------- *)
(* Strings: UTF-8 decoding, unicode.IsSpace, strings.* helpers             *)
(* ---------------------------------------------------------------------- *)
NL == "\n"

\* the backtick byte (0x60)
BT == "bt"

\* utf8.DecodeRune at byte i of s: the rune and its width in bytes.  A lead
\* byte without its two continuation bytes, or a stray continuation byte,
\* decodes to RuneError (U+FFFD) of width 1.
DecodeRune(s, i) ==
  IF s[i] = "E3" /\ i + 2 <= Len(s) /\ s[i+1] = "80" /\ s[i+2] = "80"
    THEN [r |-> "U3000", n |-> 3]
  ELSE IF s[i] \in {"E3", "80"}
    THEN [r |-> "UFFFD", n |-> 1]
  ELSE [r |-> s[i], n |-> 1]

IsSpace(r) == r \in {" ", "\t", NL, "U3000"}

IsDigit(r) == r \in {"1", "2"}

RuneLen(r) == IF r \in {"U3000", "UFFFD"} THEN 3 ELSE 1

RECURSIVE RunesFrom(_, _)
RunesFrom(s, i) ==
  IF i > Len(s) THEN <<>>
  ELSE LET d == DecodeRune(s, i) IN <<d.r>> \o RunesFrom(s, i + d.n)

\* []rune(s)
ToRunes(s) == RunesFrom(s, 1)

RECURSIVE Repeat(_, _)
Repeat(s, n) == IF n <= 0 THEN <<>> ELSE s \o Repeat(s, n - 1)

HasPrefix(s, p) == Len(s) >= Len(p) /\ SubSeq(s, 1, Len(p)) = p

HasSuffix(s, p) == Len(s) >= Len(p) /\ SubSeq(s, Len(s) - Len(p) + 1, Len(s)) = p

\* s[n:]
SliceFrom(s, n) == SubSeq(s, n + 1, Len(s))

\* the byte index just past the last rune of s that is not white space
RECURSIVE TrimEnd(_, _, _)
TrimEnd(s, i, last) ==
  IF i > Len(s) THEN last
  ELSE LET d == DecodeRune(s, i) IN
       TrimEnd(s, i + d.n, IF IsSpace(d.r) THEN last ELSE i + d.n - 1)

\* strings.TrimRightFunc(s, unicode.IsSpace)
TrimRightSpace(s) == SubSeq(s, 1, TrimEnd(s, 1, 0))

\* the byte index of the first rune of s that is not white space
RECURSIVE TrimStart(_, _)
TrimStart(s, i) ==
  IF i > Len(s) THEN i
  ELSE LET d == DecodeRune(s, i) IN
       IF IsSpace(d.r) THEN TrimStart(s, i + d.n) ELSE i

\* strings.TrimSpace(s)
TrimSpace(s) == TrimRightSpace(SubSeq(s, TrimStart(s, 1), Len(s)))

\* bufio.ScanWords over s: the maximal runs of bytes between white-space runes
RECURSIVE ScanFrom(_, _, _)
ScanFrom(s, i, cur) ==
  IF i > Len(s) THEN (IF cur = <<>> THEN <<>> ELSE <<cur>>)
  ELSE LET d == DecodeRune(s, i) IN
       IF IsSpace(d.r)
         THEN (IF cur = <<>> THEN <<>> ELSE <<cur>>) \o ScanFrom(s, i + d.n, <<>>)
         ELSE ScanFrom(s, i + d.n, cur \o SubSeq(s, i, i + d.n - 1))

ScanWords(s) == ScanFrom(s, 1, <<>>)

(* ---------------------------------------------------------------------- *)
(* Line classifiers                                                        *)
(* ---------------------------------------------------------------------- *)
RECURSIVE QuoteScan(_, _, _, _, _, _)
QuoteScan(runes, i, bytes, consumedSpaceAfter, depth, len) ==
  IF i > Len(runes) THEN [depth |-> depth, len |-> len]
  ELSE IF IsSpace(runes[i])
    THEN QuoteScan(runes, i + 1, bytes + RuneLen(runes[i]), TRUE, depth,
                   IF ~consumedSpaceAfter THEN bytes + RuneLen(runes[i]) ELSE len)
  ELSE IF runes[i] = ">"
    THEN QuoteScan(runes, i + 1, bytes + 1, FALSE, depth + 1, bytes + 1)
  ELSE [depth |-> depth, len |-> len]

countQuoteDepth(line) == QuoteScan(ToRunes(line), 1, 0, TRUE, 0, 0)

noList == "noList"
numList == "numList"
bulletList == "bulletList"

symbol(t) == IF t = numList THEN <<"1", ".">>
             ELSE IF t = bulletList THEN <<"*">> ELSE <<>>

runes(t) == IF t = numList THEN 2 ELSE IF t = bulletList THEN 1 ELSE 0

\* the zero listState
listState0 == [typ |-> noList, indent |-> 0, indentBytes |-> 0]

RECURSIVE ListScan(_, _, _)
ListScan(rs, i, l) ==
  IF i > Len(rs) THEN l
  ELSE IF IsSpace(rs[i])
    THEN ListScan(rs, i + 1, [l EXCEPT !.indent = @ + 1,
                                       !.indentBytes = @ + RuneLen(rs[i])])
  ELSE IF IsDigit(rs[i])
    THEN IF Len(rs) <= i + 1 THEN l
         ELSE IF rs[i+1] = "." /\ IsSpace(rs[i+2]) THEN [l EXCEPT !.typ = numList]
         ELSE l
  ELSE IF rs[i] = "*" THEN [l EXCEPT !.typ = bulletList]
  ELSE l

countListIndent(line) == ListScan(ToRunes(line), 1, listState0)

\* endsSentence without the "vs." exception
endsSentence_NoVs(word) ==
  /\ \/ HasSuffix(word, <<".">>)
     \/ HasSuffix(word, <<".", "\"">>)
     \/ HasSuffix(word, <<".", "'">>)
  /\ ~HasSuffix(word, <<"e", ".", "g", ".">>)
  /\ ~HasSuffix(word, <<"i", ".", "e", ".">>)

endsSentence(word) ==
  /\ \/ HasSuffix(word, <<".">>)
     \/ HasSuffix(word, <<".", "\"">>)
     \/ HasSuffix(word, <<".", "'">>)
  /\ ~HasSuffix(word, <<"e", ".", "g", ".">>)
  /\ ~HasSuffix(word, <<"v", "s", ".">>)
  /\ ~HasSuffix(word, <<"i", ".", "e", ".">>)

(* ---------------------------------------------------------------------- *)
(* fmtState and its methods.  A state st is a record of the fmtState       *)
(* fields, the writes made to f.out in the current iteration (out), the    *)
(* position of the run (pc) and, as history, what the pending line is made *)
(* of: its words (words) and how it was started (head: the quote and list  *)
(* prefix written, the list state then, and whether it is the first output *)
(* line begun since the list item started); itemBegun is the history       *)
(* behind the latter.                                                      *)
(* ---------------------------------------------------------------------- *)

\* history of a pending line that has not been started
noHead == [qp |-> <<>>, lp |-> <<>>, item |-> listState0, first |-> FALSE]

\* newFmtState(charsPerLine, out)
newFmtState ==
  [newLine |-> <<>>, newLineRunes |-> 0, inCode |-> FALSE, list |-> listState0,
   appliedFirstList |-> FALSE, listPrefixFirst |-> <<>>, listPrefixRest |-> <<>>,
   out |-> <<>>, pc |-> "scan", words |-> <<>>, head |-> noHead, itemBegun |-> FALSE]

setListState(st, l) ==
  IF l.typ # noList
    THEN [st EXCEPT !.list = l,
                    !.itemBegun = FALSE,
                    !.appliedFirstList = FALSE,
                    !.listPrefixFirst = Repeat(<<" ">>, l.indent) \o symbol(l.typ) \o <<" ">>,
                    !.listPrefixRest = Repeat(<<" ">>, l.indent + runes(l.typ) + 1)]
    ELSE [st EXCEPT !.list = l,
                    !.itemBegun = FALSE,
                    !.listPrefixFirst = <<>>,
                    !.listPrefixRest = <<>>]

writeToLine(st, s) ==
  [st EXCEPT !.newLine = @ \o s,
             !.newLineRunes = @ + Len(ToRunes(s))]

\* flushLine without the trim of trailing white space
flushLine_NoTrim(st, why) ==
  [st EXCEPT !.out = Append(@, [s |-> st.newLine \o <<NL>>,
                                why |-> why, words |-> st.words,
                                head |-> st.head]),
             !.newLineRunes = 0,
             !.newLine = <<>>,
             !.words = <<>>, !.head = noHead]

\* fmt.Fprintln(f.out, ...): one write of the trimmed line and a newline.
\* why records the place in process that called flushLine.
flushLine(st, why) ==
  [st EXCEPT !.out = Append(@, [s |-> TrimRightSpace(st.newLine) \o <<NL>>,
                                why |-> why, words |-> st.words,
                                head |-> st.head]),
             !.newLineRunes = 0,
             !.newLine = <<>>,
             !.words = <<>>, !.head = noHead]

\* if f.newLineRunes != 0 { f.flushLine() }
flushPending(st, why) == IF st.newLineRunes # 0 THEN flushLine(st, why) ELSE st

\* processFence without the flush before an opening fence
processFence_NoFlush(st, trimmedLine) ==
  LET st1 == IF ~st.inCode THEN setListState(st, listState0) ELSE st
      st2 == [st1 EXCEPT !.inCode = ~st1.inCode]
  IN flushLine(writeToLine(st2, trimmedLine), "fence")

\* processFence without the reset of the list state
processFence_KeepList(st, trimmedLine) ==
  LET st1 == IF ~st.inCode THEN flushPending(st, "beforeFence") ELSE st
      st2 == [st1 EXCEPT !.inCode = ~st1.inCode]
  IN flushLine(writeToLine(st2, trimmedLine), "fence")

\* lines 158-170: a fence line
processFence(st, trimmedLine) ==
  LET st1 == IF ~st.inCode
               THEN setListState(flushPending(st, "beforeFence"), listState0)
               ELSE st
      st2 == [st1 EXCEPT !.inCode = ~st1.inCode]
  IN flushLine(writeToLine(st2, trimmedLine), "fence")

\* processBlank without the reset of the list state
processBlank_KeepList(st) == flushLine(flushPending(st, "beforeBlank"), "blank")

\* lines 171-178: a line that trims to nothing
processBlank(st) ==
  flushLine(setListState(flushPending(st, "beforeBlank"), listState0), "blank")

\* lines 179-184: a line inside a code block
processCode(st, line) == flushLine(writeToLine(st, line), "code")

\* no width rule
wrapBefore_Never(st, word) == st

\* the width rule one column late
wrapBefore_Late(st, word) ==
  IF st.newLineRunes # 0 /\ st.newLineRunes + Len(ToRunes(word)) > charsPerLine + 1
    THEN flushLine(st, "width")
    ELSE st

\* lines 216-218: the width rule, before a word is written
wrapBefore(st, word) ==
  IF st.newLineRunes # 0 /\ st.newLineRunes + Len(ToRunes(word)) > charsPerLine
    THEN flushLine(st, "width")
    ELSE st

\* lines 219-226: the prefixes at the start of a new output line
startLine(st, quotePrefix, listPrefix) ==
  IF st.newLineRunes = 0
    THEN [writeToLine(writeToLine(st, quotePrefix), listPrefix)
            EXCEPT !.appliedFirstList = TRUE,
                   !.itemBegun = (st.list.typ # noList),
                   !.head = [qp |-> quotePrefix, lp |-> listPrefix,
                             item |-> st.list,
                             first |-> st.list.typ # noList /\ ~st.itemBegun]]
    ELSE st

\* lines 222-225: the local listPrefix after the start of a new output line
nextListPrefix(st, listPrefix) ==
  IF st.newLineRunes = 0 /\ ~st.appliedFirstList THEN st.listPrefixRest ELSE listPrefix

\* putWord without the sentence rule
putWord_NoFlush(st, word, g) ==
  writeToLine([writeToLine(st, word) EXCEPT !.words = Append(@, g)], <<" ">>)

\* lines 227-232: the word, then the sentence rule or the separator
putWord(st, word, g) ==
  LET st1 == [writeToLine(st, word) EXCEPT !.words = Append(@, g)]
  IN IF endsSentence(word) THEN flushLine(st1, "sentence")
     ELSE writeToLine(st1, <<" ">>)

\* lines 214-233: the loop over the words ws[i..] of a line; src is the
\* history attached to each word (where its input line put it)
RECURSIVE wordLoop(_, _, _, _, _, _)
wordLoop(st, ws, i, quotePrefix, listPrefix, src) ==
  IF i > Len(ws) THEN st
  ELSE LET st1 == wrapBefore(st, ws[i])
           st2 == startLine(st1, quotePrefix, listPrefix)
           lp2 == nextListPrefix(st1, listPrefix)
           g == [w |-> ws[i], last |-> i = Len(ws), depth |-> src.depth,
                 marked |-> src.marked]
       IN wordLoop(putWord(st2, ws[i], g), ws, i + 1, quotePrefix, lp2, src)

\* listStep with a continuation indent that leaves out the space after
\* the marker
listStep_NoGap(st, newList) ==
  IF newList.typ # noList
    THEN setListState(flushPending(st, "listStart"), newList)
  ELSE IF st.list.typ # noList
          /\ newList.indent # st.list.indent + runes(st.list.typ)
    THEN setListState(flushPending(st, "listEnd"), listState0)
  ELSE st

\* listStep without the flush at the end of a list
listStep_NoEndFlush(st, newList) ==
  IF newList.typ # noList
    THEN setListState(flushPending(st, "listStart"), newList)
  ELSE IF st.list.typ # noList
          /\ newList.indent # st.list.indent + runes(st.list.typ) + 1
    THEN setListState(st, listState0)
  ELSE st

\* lines 190-201: the list state a line leaves, after the flush it forces
listStep(st, newList) ==
  IF newList.typ # noList
    THEN setListState(flushPending(st, "listStart"), newList)
  ELSE IF st.list.typ # noList
          /\ newList.indent # st.list.indent + runes(st.list.typ) + 1
    THEN setListState(flushPending(st, "listEnd"), listState0)
  ELSE st

\* lines 202-209: the list prefix of the line
pickListPrefix(st, newList) ==
  IF st.list.typ # noList
    THEN IF newList.typ # noList THEN st.listPrefixFirst ELSE st.listPrefixRest
    ELSE <<>>

\* lines 186-233: a line of text outside a code block.  The slice at line
\* 210 panics when its offset lies beyond the line.
processText(st, line) ==
  LET q == countQuoteDepth(line)
      quotePrefix == Repeat(<<">", " ">>, q.depth)
      line1 == SliceFrom(line, q.len)
      newList == countListIndent(line1)
      st1 == listStep(st, newList)
      listPrefix == pickListPrefix(st1, newList)
      off == st1.list.indentBytes + Len(symbol(st1.list.typ))
      src == [depth |-> q.depth, marked |-> newList.typ # noList]
  IN IF off > Len(line1)
       THEN [st1 EXCEPT !.pc = "panic"]
       ELSE wordLoop(st1, ScanWords(SliceFrom(line1, off)), 1, quotePrefix, listPrefix, src)

isFence(line) == HasPrefix(TrimSpace(line), <<BT, BT, BT>>)

isBlank(line) == Len(TrimSpace(line)) = 0

\* lines 156-233: the body of the scan loop for one line
processLine(st, line) ==
  IF isFence(line) THEN processFence(st, TrimSpace(line))
  ELSE IF isBlank(line) THEN processBlank(st)
  ELSE IF st.inCode THEN processCode(st, line)
  ELSE processText(st, line)

\* finish without the flush of the pending line
finish_NoFlush(st) == [st EXCEPT !.pc = "done"]

\* lines 235-237: after the loop
finish(st) == [flushPending(st, "eof") EXCEPT !.pc = "done"]

(* ---------------------------------------------------------------------- *)
(* The input: the lines the scanner may deliver                            *)
(* ---------------------------------------------------------------------- *)
U3000 == <<"E3", "80", "80">>

\* a word one rune longer than the width, and one that fills all but one column
LongWord == Repeat(<<"a">>, charsPerLine + 1)
FitWord == Repeat(<<"a">>, charsPerLine - 1)

RECURSIVE WordSeqs(_, _)
WordSeqs(W, n) ==
  IF n = 0 THEN {<<>>}
  ELSE LET S == WordSeqs(W, n - 1) IN
       S \cup {Append(ws, w) : ws \in S, w \in W}

RECURSIVE Join(_)
Join(ws) ==
  IF Len(ws) = 0 THEN <<>>
  ELSE IF Len(ws) = 1 THEN ws[1]
  ELSE ws[1] \o <<" ">> \o Join(Tail(ws))

\* paragraphs: up to MaxWords words, of a plain word and a sentence end
PlainLines == {Join(ws) : ws \in WordSeqs({<<"a">>, <<"a", ".">>}, MaxWords) \ {<<>>}}

\* the words the sentence rule tells apart, and words that look like markers
SentenceWords ==
  { <<"a", ".", "\"">>, <<"a", ".", "'">>, <<"e", ".", "g", ".">>,
    <<"v", "s", ".">>, <<"i", ".", "e", ".">>, <<"E", ".", "g", ".">>,
    <<"a", "'">>, <<"e", ".", "g", ".", "\"">> }

MarkerWords == {<<"*", "a">>, <<">", "a">>, FitWord, LongWord}

\* each of these words followed by a plain word, the latter also preceded by one
SpecialLines ==
  {w \o <<" ", "a">> : w \in SentenceWords \cup MarkerWords}
    \cup {<<"a", " ">> \o w : w \in MarkerWords}

\* quote prefixes of depth 1..MaxDepth, written with and without spaces
QuoteMarks ==
  {Repeat(<<">", " ">>, d) : d \in 1..MaxDepth} \cup {Repeat(<<">">>, d) : d \in 1..MaxDepth}

QuoteLines == {q \o <<"a">> : q \in QuoteMarks} \cup {<<">", " ">> \o FitWord}

\* indentation of 0..MaxIndent spaces, or one ideographic space
Indents == {Repeat(<<" ">>, n) : n \in 0..MaxIndent} \cup {U3000}

\* list items and indented lines, the latter continuing an item or ending it
ListLines ==
  {i \o m \o b : i \in Indents, m \in {<<"*", " ">>, <<"1", ".", " ">>},
                 b \in {<<"a">>, <<"a", ".", " ", "a">>}}
    \cup {i \o b : i \in Indents \ {<<>>}, b \in {<<"a">>, <<"a", " ", "a", ".">>, FitWord}}

\* markers without text, a bullet without a space, another digit, a list
\* inside a quote and its continuation, a quoted line of white space
OddLines ==
  { <<"*">>, <<"1", ".", " ">>, <<"*", "a", ".", " ", "a">>, <<"2", ".", " ", "a">>,
    <<">", " ", "*", " ", "a">>, <<">", " ", " ", " ", "a">>,
    <<">", " ", " ", " ", " ">>, <<"1", ".">>, <<"1", ".", "a">>,
    <<"\t", "*", " ", "a">>, <<"\t", "a">>, <<"*", " ">> \o FitWord,
    <<">", " ", "a", ".", " ", ">", " ", "a">> }

FenceLines == {<<BT, BT, BT>>, <<" ", BT, BT, BT, "a", " ">>}

\* lines of white space only
BlankLines == {<<>>, <<" ", " ">>, U3000}

\* lines as they occur inside code blocks
CodeLines == {<<"a", " ">>, <<" ", "a", ".", " ", "a">>, LongWord \o <<" ", "a">>}

Lines == PlainLines \cup SpecialLines \cup QuoteLines \cup ListLines \cup OddLines
           \cup FenceLines \cup BlankLines \cup CodeLines

FenceInput == {l \in Lines : isFence(l)}
BlankInput == {l \in Lines : ~isFence(l) /\ isBlank(l)}
TextInput == {l \in Lines : ~isFence(l) /\ ~isBlank(l)}

(* ---------------------------------------------------------------------- *)
(* The state machine: process.  One step is one iteration of the scan loop *)
(* (pc goes from "scan" to "loop"), the next takes the loop back to        *)
(* s.Scan() and starts the history of the iteration afresh.                *)
(* ---------------------------------------------------------------------- *)
VARIABLES newLine, newLineRunes, inCode, list, appliedFirstList,
          listPrefixFirst, listPrefixRest,
          out,       \* the writes made to f.out by the current iteration
          pc,        \* "scan" at s.Scan(), "loop" at the end of the loop body,
                     \* "eof" when s.Scan() has returned false, "done" when
                     \* process has returned, "panic" when aborted
          words, head,    \* history: the words and the start of the pending line
          itemBegun, \* history: an output line was begun since the item started
          line,      \* history: the line of the current iteration
          afterBlank, \* history: the line read last was a blank line
          outBroken, \* the writer behind f.out fails every write from now on
          outErr,    \* a write to f.out has returned an error
          readErr,   \* the scanner stopped on a read error
          exit,      \* the exit status of the run, -1 while it runs
          doc,       \* a whole document, for runs of process from start to end
          once,      \* the writes of process on doc
          twice,     \* the writes of process on the lines written in once
          wrapped    \* once and twice have been computed

vars == <<newLine, newLineRunes, inCode, list, appliedFirstList,
          listPrefixFirst, listPrefixRest, out, pc, words, head,
          itemBegun, line, afterBlank, outBroken, outErr, readErr, exit,
          doc, once, twice, wrapped>>

\* the variables of whole-document runs
wvars == <<doc, once, twice, wrapped>>

\* the variables of the run in steps
svars == <<newLine, newLineRunes, inCode, list, appliedFirstList,
           listPrefixFirst, listPrefixRest, out, pc, words, head,
           itemBegun, line, afterBlank, outBroken, outErr, readErr, exit>>

\* the state as a record
Cur ==
  [newLine |-> newLine, newLineRunes |-> newLineRunes, inCode |-> inCode,
   list |-> list, appliedFirstList |-> appliedFirstList,
   listPrefixFirst |-> listPrefixFirst, listPrefixRest |-> listPrefixRest,
   out |-> out, pc |-> pc, words |-> words, head |-> head, itemBegun |-> itemBegun]

Becomes(st) ==
  /\ newLine' = st.newLine
  /\ newLineRunes' = st.newLineRunes
  /\ inCode' = st.inCode
  /\ list' = st.list
  /\ appliedFirstList' = st.appliedFirstList
  /\ listPrefixFirst' = st.listPrefixFirst
  /\ listPrefixRest' = st.listPrefixRest
  /\ out' = st.out
  /\ pc' = st.pc
  /\ words' = st.words
  /\ head' = st.head
  /\ itemBegun' = st.itemBegun

InitRun ==
  /\ newLine = newFmtState.newLine
  /\ newLineRunes = newFmtState.newLineRunes
  /\ inCode = newFmtState.inCode
  /\ list = newFmtState.list
  /\ appliedFirstList = newFmtState.appliedFirstList
  /\ listPrefixFirst = newFmtState.listPrefixFirst
  /\ listPrefixRest = newFmtState.listPrefixRest
  /\ out = newFmtState.out
  /\ pc = newFmtState.pc
  /\ words = newFmtState.words
  /\ head = newFmtState.head
  /\ itemBegun = newFmtState.itemBegun
  /\ line = <<>>
  /\ afterBlank = FALSE
  /\ outBroken = FALSE
  /\ outErr = FALSE
  /\ readErr = FALSE
  /\ exit = -1

Init == InitRun /\ doc = <<>> /\ once = <<>> /\ twice = <<>> /\ wrapped = FALSE

\* fmt.Fprintln on a broken writer returns an error; flushLine drops it
Writes(st) == outErr' = (outErr \/ (outBroken /\ st.out # <<>>))

\* one iteration of the loop at lines 155-234 on the line l
Iterate(l) ==
  \E st \in {processLine(Cur, l)} :
     /\ Becomes([st EXCEPT !.pc = IF st.pc = "panic" THEN "panic" ELSE "loop"])
     /\ Writes(st)
     /\ line' = l
     /\ afterBlank' = (~isFence(l) /\ isBlank(l))
     /\ exit' = IF st.pc = "panic" THEN 2 ELSE exit
     /\ UNCHANGED <<readErr, outBroken>>
     /\ UNCHANGED wvars

Fence == pc = "scan" /\ \E l \in FenceInput : Iterate(l)

Blank == pc = "scan" /\ \E l \in BlankInput : Iterate(l)

Code == pc = "scan" /\ inCode /\ \E l \in TextInput : Iterate(l)

Text == pc = "scan" /\ ~inCode /\ \E l \in TextInput : Iterate(l)

\* lines 235-237: the loop is over; process returns and main exits with
\* status 0
Finish ==
  /\ pc = "eof"
  /\ \E st \in {finish(Cur)} :
        /\ Becomes(st)
        /\ Writes(st)
        /\ exit' = 0
        /\ UNCHANGED <<line, afterBlank, outBroken, readErr>>
        /\ UNCHANGED wvars

\* the loop goes back to s.Scan(); what the iteration wrote has left
Continue ==
  /\ pc = "loop"
  /\ pc' = "scan"
  /\ out' = <<>>
  /\ line' = <<>>
  /\ UNCHANGED <<newLine, newLineRunes, inCode, list, appliedFirstList,
                 listPrefixFirst, listPrefixRest, words, head, itemBegun,
                 afterBlank, outBroken, outErr, readErr, exit>>
  /\ UNCHANGED wvars

\* end of input: s.Scan() returns false
Eof ==
  /\ pc = "scan"
  /\ pc' = "eof"
  /\ UNCHANGED <<newLine, newLineRunes, inCode, list, appliedFirstList,
                 listPrefixFirst, listPrefixRest, out, words, head,
                 itemBegun, line, afterBlank, outBroken, outErr, readErr, exit>>
  /\ UNCHANGED wvars

\* a read error: s.Scan() returns false as at end of input, s.Err() is never read
ReadError ==
  /\ pc = "scan"
  /\ pc' = "eof"
  /\ readErr' = TRUE
  /\ UNCHANGED <<newLine, newLineRunes, inCode, list, appliedFirstList,
                 listPrefixFirst, listPrefixRest, out, words, head,
                 itemBegun, line, afterBlank, outBroken, outErr, exit>>
  /\ UNCHANGED wvars

\* the environment: the writer behind f.out breaks (a closed pipe, a full disk)
WriterBreaks ==
  /\ pc = "scan" /\ ~outBroken
  /\ outBroken' = TRUE
  /\ UNCHANGED <<newLine, newLineRunes, inCode, list, appliedFirstList,
                 listPrefixFirst, listPrefixRest, out, pc, words, head,
                 itemBegun, line, afterBlank, outErr, readErr, exit>>
  /\ UNCHANGED wvars

\* a run on streams that do not fail
Next == Fence \/ Blank \/ Code \/ Text \/ Continue \/ Eof \/ Finish

\* a run on streams that may fail
NextIO == Next \/ ReadError \/ WriterBreaks

Spec == Init /\ [][Next]_vars

SpecIO == Init /\ [][NextIO]_vars

\* a run on a finite input: the loop goes on after each iteration (the
\* program is sequential and no iteration blocks), and s.Scan() returns
\* false after finitely many lines
SpecFinite ==
  Init /\ [][Next]_vars /\ WF_vars(Continue) /\ WF_vars(Finish) /\ SF_vars(Eof)

(* ---------------------------------------------------------------------- *)
(* process as a function of the whole input                                *)
(* ---------------------------------------------------------------------- *)
\* the scan loop over the lines d[i..]; a panic ends the run
RECURSIVE scanLoop(_, _, _)
scanLoop(st, d, i) ==
  IF i > Len(d) \/ st.pc = "panic" THEN st
  ELSE scanLoop(processLine(st, d[i]), d, i + 1)

\* process on the input d: all the writes made to f.out
process(d) ==
  LET st == scanLoop(newFmtState, d, 1)
  IN IF st.pc = "panic" THEN st.out ELSE finish(st).out

\* the lines of an output, as the next run reads them
AsInput(o) == [i \in DOMAIN o |-> SubSeq(o[i].s, 1, Len(o[i].s) - 1)]

\* the lines of the documents that are wrapped twice
DocLines ==
  { <<"a">>, <<"a", ".">>, <<"a", " ", "a">>, <<"a", ".", " ", "*", "a">>,
    <<"a", ".", " ", ">", "a", "a", "a", " ", "a">>, <<"*", " ", "a">>,
    <<"*", " ", "a", ".", " ", "a">>, <<" ", " ", "a">>, <<">", " ", "a">>,
    <<">", "a", " ", "a">>, <<"1", ".", " ", "a">>, <<"*">>, <<>>,
    <<BT, BT, BT>>, FitWord, <<"a", " ">> \o FitWord }

Docs == UNION {[1..n -> DocLines] : n \in 1..MaxDocLen}

InitWrap == InitRun /\ doc \in Docs /\ once = <<>> /\ twice = <<>> /\ wrapped = FALSE

\* wrap the document, and wrap the result again
Rewrap ==
  /\ ~wrapped
  /\ wrapped' = TRUE
  /\ once' = process(doc)
  /\ twice' = process(AsInput(process(doc)))
  /\ UNCHANGED doc
  /\ UNCHANGED svars

NextWrap == Rewrap

SpecWrap == InitWrap /\ [][NextWrap]_vars

(* ---------------------------------------------------------------------- *)
(* Properties                                                              *)
(* ---------------------------------------------------------------------- *)
RuneCount(s) == Len(ToRunes(s))

\* the bytes of a write without its final byte
Written(o) == SubSeq(o.s, 1, Len(o.s) - 1)

\* writes that carry words
Reflowed(o) == o.words # <<>>

OutLines == {out[i] : i \in DOMAIN out}

\* the classes of input lines
BlankLine(l) == ~isFence(l) /\ isBlank(l)
TextLine(l) == ~isFence(l) /\ ~isBlank(l)

\* the last write of the current iteration
LastOut == out[Len(out)]

\* a word comes from an input line without '>' and without a list marker
Unmarked(g) == g.depth = 0 /\ ~g.marked

\* C1 (as stated): every output line that carries a word of an input line
\* without leading '>' and without list marker has at most charsPerLine
\* runes, unless it holds a single word that alone has more than
\* charsPerLine runes.
C1_Original ==
  \A o \in OutLines :
    (\E j \in DOMAIN o.words : Unmarked(o.words[j])) =>
      \/ RuneCount(Written(o)) <= charsPerLine
      \/ Len(o.words) = 1 /\ RuneCount(o.words[1].w) > charsPerLine

\* C1 (amended): every output line that carries a word of an input line
\* without leading '>' and without list marker has at most charsPerLine
\* runes, unless it holds a single word that, together with the
\* continuation prefix of the active list item, has more than charsPerLine
\* runes.
C1_Width ==
  \A o \in OutLines :
    (\E j \in DOMAIN o.words : Unmarked(o.words[j])) =>
      \/ RuneCount(Written(o)) <= charsPerLine
      \/ /\ Len(o.words) = 1
         /\ o.head.qp = <<>>
         /\ RuneCount(o.head.lp) + RuneCount(o.words[1].w) > charsPerLine

\* C1 witness: a continuation line's single word fits the width alone but
\* not behind the continuation prefix; and a line of several words was
\* broken by the width rule
C1_Witness ==
  /\ pc = "loop"
  /\ \E o \in OutLines :
       /\ Len(o.words) = 1 /\ Unmarked(o.words[1])
       /\ o.head.lp # <<>>
       /\ RuneCount(o.words[1].w) <= charsPerLine
       /\ RuneCount(Written(o)) > charsPerLine
  /\ \E o \in OutLines : o.why = "width"

\* C2: no word of an output line other than its last one ends a sentence,
\* a line whose last word ends a sentence was written when that word was
\* appended, and no word that ends a sentence is left pending.
C2_SentenceFlush ==
  /\ \A o \in OutLines :
       /\ \A j \in DOMAIN o.words : j < Len(o.words) => ~endsSentence(o.words[j].w)
       /\ (Reflowed(o) /\ endsSentence(o.words[Len(o.words)].w)) => o.why = "sentence"
  /\ \A j \in DOMAIN words : ~endsSentence(words[j].w)

\* C2 witness: one input line gave two output lines, one per sentence,
\* that together would have fitted the width
C2_Witness ==
  /\ Len(out) = 2
  /\ out[1].why = "sentence" /\ out[2].why = "sentence"
  /\ out[1].words[1].last = FALSE
  /\ RuneCount(Written(out[1])) + 1 + RuneCount(Written(out[2])) <= charsPerLine

\* the suffixes of the sentence rule, as the specification lists them
PeriodEnd(w) ==
  \/ (Len(w) >= 1 /\ w[Len(w)] = ".")
  \/ (Len(w) >= 2 /\ w[Len(w) - 1] = "." /\ w[Len(w)] \in {"\"", "'"})

AbbrevEnd(w) ==
  \/ (Len(w) >= 4 /\ SubSeq(w, Len(w) - 3, Len(w)) \in {<<"e", ".", "g", ".">>, <<"i", ".", "e", ".">>})
  \/ (Len(w) >= 3 /\ SubSeq(w, Len(w) - 2, Len(w)) = <<"v", "s", ".">>)

\* C3: a word ending in "e.g.", "vs." or "i.e." never causes a write: when
\* it is the last word of an output line, the width rule broke the line or
\* the word was the last of its input line; every other word ending in
\* '.', '."' or ".'" is the last word of an output line written by the
\* sentence rule.
C3_Abbreviations ==
  /\ \A o \in OutLines : \A j \in DOMAIN o.words :
       LET w == o.words[j].w IN
       /\ AbbrevEnd(w) =>
            (j = Len(o.words) => (o.why # "sentence" /\ (o.why = "width" \/ o.words[j].last)))
       /\ (PeriodEnd(w) /\ ~AbbrevEnd(w)) => (j = Len(o.words) /\ o.why = "sentence")
       /\ (j = Len(o.words) /\ o.why = "sentence") => (PeriodEnd(w) /\ ~AbbrevEnd(w))
  /\ \A j \in DOMAIN words : PeriodEnd(words[j].w) => AbbrevEnd(words[j].w)

\* C3 witness: an output line holds an abbreviation followed by the next
\* word of the same input line
C3_Witness ==
  \E o \in OutLines : \E j \in DOMAIN o.words :
    /\ j < Len(o.words)
    /\ AbbrevEnd(o.words[j].w)
    /\ ~o.words[j].last

\* C4 (as stated): a line inside a code block is written as one output line
\* identical to the input line, white space included.
C4_Original ==
  (pc = "loop" /\ inCode /\ out # <<>> /\ LastOut.why \in {"code", "blank"}) =>
    (Len(out) = 1 /\ Written(out[1]) = line)

\* C5 (as stated): every output line that carries a word of an input line
\* of quote depth d begins with exactly d repetitions of "> ".
C5_Original ==
  \A o \in OutLines : \A j \in DOMAIN o.words :
    LET d == o.words[j].depth IN
    /\ HasPrefix(Written(o), Repeat(<<">", " ">>, d))
    /\ ~HasPrefix(Written(o), Repeat(<<">", " ">>, d + 1))

\* the prefix claimed for an output line of a list item
ItemPrefix(h) ==
  IF h.first
    THEN Repeat(<<" ">>, h.item.indent) \o symbol(h.item.typ) \o <<" ">>
    ELSE Repeat(<<" ">>, h.item.indent + runes(h.item.typ) + 1)

\* C6 (as stated): the first output line of a list item carries, after the
\* quote prefix, the indent, the marker and one space; every further output
\* line of the item carries indent + marker width + 1 spaces.
C6_Original ==
  /\ \A o \in OutLines :
       (Reflowed(o) /\ o.head.item.typ # noList) =>
         /\ o.head.lp = ItemPrefix(o.head)
         /\ HasPrefix(Written(o), o.head.qp \o o.head.lp)
  /\ (words # <<>> /\ head.item.typ # noList) => head.lp = ItemPrefix(head)

\* a step that is one iteration of the scan loop
IterStep == pc = "scan" /\ pc' = "loop"

\* the output lines begun by the iteration just made, with the pending one
BegunNext ==
  {[words |-> out'[i].words, head |-> out'[i].head, s |-> Written(out'[i])] :
      i \in {j \in DOMAIN out' : out'[j].words # <<>>}}
    \cup (IF words' # <<>>
            THEN {[words |-> words', head |-> head', s |-> newLine']}
            ELSE {})

\* C7: a blank line writes the pending line if there is one, resets the
\* list state and writes one empty line; the output lines of the line that
\* follows carry a list prefix only if that line has a list marker and a
\* quote prefix only if it has '>' markers.
C7_BlankReset ==
  [][ /\ (IterStep /\ BlankLine(line')) =>
           /\ newLine' = <<>> /\ newLineRunes' = 0
           /\ list' = listState0
           /\ listPrefixFirst' = <<>> /\ listPrefixRest' = <<>>
           /\ Len(out') = (IF newLineRunes # 0 THEN 2 ELSE 1)
           /\ out'[Len(out')].s = <<NL>>
           /\ newLineRunes # 0 => (out'[1].words = words /\ words # <<>>)
      /\ (IterStep /\ afterBlank /\ TextLine(line') /\ ~inCode) =>
           \A b \in BegunNext :
             /\ ~b.words[1].marked => b.head.lp = <<>>
             /\ b.words[1].depth = 0 => b.head.qp = <<>>
             /\ HasPrefix(b.s, b.head.qp \o b.head.lp \o b.words[1].w)
    ]_vars

\* C7 witness: a blank line arrived while a list item was pending
C7_Witness ==
  /\ pc = "loop" /\ BlankLine(line) /\ afterBlank
  /\ Len(out) = 2 /\ out[2].why = "blank"
  /\ out[1].head.item.typ # noList
  /\ list.typ = noList

\* C9 (as stated): a failed write ends the processing and a failed read
\* ends the run with an error.
C9_Original ==
  /\ outErr => pc # "scan"
  /\ readErr => exit # 0

NoTrailingSpace(s) ==
  \/ s = <<>>
  \/ /\ s[Len(s)] \notin {" ", "\t", NL}
     /\ ~(Len(s) >= 3 /\ SubSeq(s, Len(s) - 2, Len(s)) = U3000)

WordsPerLine(o) ==
  [i \in DOMAIN o |->
     IF o[i].words # <<>>
       THEN [j \in DOMAIN o[i].words |-> o[i].words[j].w]
       ELSE SubSeq(o[i].s, 1, Len(o[i].s) - 1)]

\* C8 (as stated): wrapping the output of a wrap again gives the same
\* words on the same output lines.
C8_Original == wrapped => WordsPerLine(twice) = WordsPerLine(once)

\* the step after the loop, in which process returns
EofStep == pc = "eof" /\ pc' = "done"

OneDepth(ws) == \A i, j \in DOMAIN ws : ws[i].depth = ws[j].depth

\* C12 (as stated): the pending buffer never holds words of input lines of
\* different quote depths, and neither does any output line.
C12_Original ==
  /\ OneDepth(words)
  /\ \A o \in OutLines : OneDepth(o.words)

\* a step that runs the loop body on one line, to its end or to a panic
LineStep == pc = "scan" /\ pc' \in {"loop", "panic"}

\* what countListIndent finds on a line behind its quote markers
LineList(l) == countListIndent(SliceFrom(l, countQuoteDepth(l).len))

\* the line of the step starts a list item, or ends the list by its indent
StartsList == TextLine(line') /\ ~inCode /\ LineList(line').typ # noList
EndsList ==
  /\ TextLine(line') /\ ~inCode
  /\ list.typ # noList
  /\ LineList(line').typ = noList
  /\ LineList(line').indent # list.indent + runes(list.typ) + 1

\* the first write of the step is the pending line, as it was
PendingWritten ==
  /\ out' # <<>>
  /\ out'[1].words = words
  /\ out'[1].s = TrimRightSpace(newLine) \o <<NL>>

\* C13: a fence line, a blank line, a line that starts a list item and a
\* line that ends the list write a non-empty pending buffer, unchanged, as
\* the first write of their iteration, before anything else is written.
C13_EventFlush ==
  [][ (LineStep /\ newLineRunes # 0
         /\ (isFence(line') \/ BlankLine(line') \/ StartsList \/ EndsList))
        => PendingWritten
    ]_vars

\* C13 witness: a line ended a list while an item was pending; the item
\* was written and the words of the line are pending without it
C13_Witness ==
  /\ pc = "loop" /\ TextLine(line)
  /\ Len(out) >= 1 /\ out[1].why = "listEnd"
  /\ out[1].head.item.typ # noList
  /\ words # <<>> /\ head.lp = <<>>

\* C14 (as stated): a fence line is written as one output line identical
\* to the input line, apart from any pending line written before it.
C14_Original ==
  (pc = "loop" /\ isFence(line)) =>
    /\ LastOut.words = <<>>
    /\ Written(LastOut) = line

\* C14 (amended): a fence line, opening or closing, is written without its
\* surrounding white space as an output line of its own; an opening fence
\* first writes a non-empty pending buffer and resets the list state.
C14_FenceLine ==
  [][ (LineStep /\ isFence(line')) =>
        /\ inCode' = ~inCode
        /\ out'[Len(out')].s = TrimSpace(line') \o <<NL>>
        /\ out'[Len(out')].words = <<>>
        /\ newLine' = <<>> /\ words' = <<>>
        /\ Len(out') = (IF newLineRunes # 0 THEN 2 ELSE 1)
        /\ newLineRunes # 0 => (~inCode /\ PendingWritten)
        /\ ~inCode =>
             /\ list' = listState0
             /\ listPrefixFirst' = <<>> /\ listPrefixRest' = <<>>
    ]_vars

\* C14 witness: an indented fence opened a code block while a line was
\* pending; the pending line and the fence were written
C14_Witness ==
  /\ pc = "loop" /\ isFence(line) /\ inCode
  /\ line # TrimSpace(line)
  /\ Len(out) = 2 /\ out[1].words # <<>>
  /\ Written(out[2]) = TrimSpace(line)

\* a line without list marker arrives while a list is active, with the
\* indent of a continuation of the item
UnmarkedInList ==
  /\ TextLine(line') /\ ~inCode
  /\ list.typ # noList
  /\ LineList(line').typ = noList
ContinuesItem ==
  /\ UnmarkedInList
  /\ LineList(line').indent = list.indent + runes(list.typ) + 1

\* the heads of the output lines begun by the step, the pending one included
BegunHeads ==
  {out'[i].head : i \in {j \in DOMAIN out' :
                           /\ out'[j].words # <<>>
                           /\ (newLineRunes # 0 => j > 1)}}
    \cup (IF words' # <<>> /\ (out' # <<>> \/ newLineRunes = 0)
            THEN {head'} ELSE {})

\* ws begins with the words of the pending line
KeepsPending(ws) == Len(ws) >= Len(words) /\ SubSeq(ws, 1, Len(words)) = words

\* C15: in a list, a line without marker whose indent is not the list
\* indent + marker width + 1 writes the pending line, leaves no list and
\* begins its output lines without list prefix; a line with that indent
\* leaves the list state as it was, its words follow the pending words of
\* the item and only the width and sentence rules write.
C15_ListEnd ==
  [][ /\ (LineStep /\ EndsList) =>
           /\ newLineRunes # 0 => (PendingWritten /\ out'[1].why = "listEnd")
           /\ list' = listState0
           /\ listPrefixFirst' = <<>> /\ listPrefixRest' = <<>>
           /\ \A h \in BegunHeads : h.lp = <<>> /\ h.item = listState0
      /\ (LineStep /\ ContinuesItem) =>
           /\ list' = list
           /\ listPrefixFirst' = listPrefixFirst
           /\ listPrefixRest' = listPrefixRest
           /\ \A i \in DOMAIN out' : out'[i].why \in {"width", "sentence"}
           /\ IF out' = <<>> THEN KeepsPending(words')
              ELSE KeepsPending(out'[1].words)
           /\ \A h \in BegunHeads : h.item = list
    ]_vars

\* C15 witness: the word of a continuation line is pending behind the
\* word of the line that started the item
C15_Witness ==
  /\ pc = "loop" /\ list.typ # noList
  /\ Len(words) >= 2
  /\ words[1].marked /\ ~words[Len(words)].marked
  /\ out = <<>>

\* a list prefix that holds a marker
HasMarker(lp) == \E i \in DOMAIN lp : lp[i] \in {"*", "."}

\* C16 (as stated): of the output lines of a list item, the first one, and
\* no later one, begins with the marker prefix; this holds too when the
\* line that starts the item has no words and the first output line of the
\* item is begun by a continuation line.
C16_Original ==
  /\ \A o \in OutLines :
       (Reflowed(o) /\ o.head.item.typ # noList) =>
         /\ HasMarker(o.head.lp) = o.head.first
         /\ o.head.first =>
              HasPrefix(Written(o), o.head.qp \o Repeat(<<" ">>, o.head.item.indent)
                                      \o symbol(o.head.item.typ))
  /\ (words # <<>> /\ head.item.typ # noList) => (HasMarker(head.lp) = head.first)

\* C17: whenever the loop is between two lines inside a code block, and
\* right after the fence that closes it, the pending buffer is empty and no
\* list is active: a closing fence has nothing to flush and the line after
\* the block inherits no list prefix.
C17_CodeBoundary ==
  (pc \in {"scan", "loop", "eof"} /\ (inCode \/ (pc = "loop" /\ isFence(line)))) =>
    /\ newLine = <<>> /\ newLineRunes = 0 /\ words = <<>>
    /\ list = listState0
    /\ listPrefixFirst = <<>> /\ listPrefixRest = <<>>

\* C17 witness: a fence opened a code block while a list item was pending
C17_Witness ==
  /\ pc = "loop" /\ inCode /\ isFence(line)
  /\ Len(out) = 2
  /\ out[1].head.item.typ # noList /\ out[1].head.lp # <<>>
  /\ list = listState0

\* the words of an output line as bytes
WordBytes(ws) == [j \in DOMAIN ws |-> ws[j].w]

\* C18: a reflowed output line of more than charsPerLine runes, prefixes
\* included, holds exactly one word; and every output line is its prefixes
\* followed by its words whole, one space between two of them.
C18_OneWord ==
  \A o \in OutLines :
    Reflowed(o) =>
      /\ RuneCount(Written(o)) > charsPerLine => Len(o.words) = 1
      /\ Written(o) = o.head.qp \o o.head.lp \o Join(WordBytes(o.words))

\* C18 witness: the width rule broke a line before a word that alone is
\* longer than the width, and the word was written on a line of its own
C18_Witness ==
  \E i \in DOMAIN out :
    /\ i > 1 /\ out[i - 1].why = "width"
    /\ Len(out[i].words) = 1
    /\ out[i].head.lp = <<>> /\ out[i].head.qp = <<>>
    /\ RuneCount(Written(out[i])) > charsPerLine

\* the words of a line of text as the claim counts them: what follows the
\* quote prefix and, on a line with a list marker, the indent and the marker
ExpectedWords(l) ==
  LET l1 == SliceFrom(l, countQuoteDepth(l).len)
      nl == countListIndent(l1)
  IN IF nl.typ # noList
       THEN ScanWords(SliceFrom(l1, nl.indentBytes + Len(symbol(nl.typ))))
       ELSE ScanWords(l1)

\* the words of the writes o[i..], in order
RECURSIVE WordsFrom(_, _)
WordsFrom(o, i) ==
  IF i > Len(o) THEN <<>> ELSE WordBytes(o[i].words) \o WordsFrom(o, i + 1)

\* C19 (as stated): the words written and pending after a line of text are
\* the words pending before it followed by the words of the line, none
\* dropped, duplicated, reordered, truncated or split.
C19_Original ==
  [][ (LineStep /\ TextLine(line') /\ ~inCode) =>
        WordsFrom(out', 1) \o WordBytes(words')
          = WordBytes(words) \o ExpectedWords(line')
    ]_vars

\* C20 (as stated): no slice leaves its line, on a line that starts a list
\* item or continues one, and the run never aborts.
C20_Original == pc # "panic" /\ exit # 2

====
